---- MODULE Spec2Model ----
(***************************************************************************)
(* The command-batch coordinator of the restful mgr module                 *)
(* (src/pybind/mgr/restful/module.py): CommandsRequest, which runs a plan  *)
(* of stages of commands, and Module.notify / Module.submit_request, which *)
(* route command completions to the coordinators and register them.        *)
(*                                                                         *)
(* Threads: the single-threaded HTTP server (make_server without threaded, *)
(* so one API call at a time) that calls submit_request and get_state; the *)
(* command dispatcher that completes commands and queues a notification;   *)
(* and the threads that run Module.notify.                                 *)
(***************************************************************************)
EXTENDS Integers, Sequences, FiniteSets, TLC

\* Bounds of the model.
MaxStages == 3      \* stages in a submitted plan
MaxCmds == 2        \* commands in one stage
NumHandlers == 2    \* threads running Module.notify
MaxCalls == 2       \* submit_request calls plus notify calls that are no first
                    \* delivery of a completion
MaxLoad == 5        \* submit_request calls plus the commands of their plans

MaxRequests == MaxCalls
MaxTotalCmds == MaxLoad - 1

Coords == 1..MaxRequests
Handlers == 1..NumHandlers
\* A command descriptor: the commands of a plan are numbered in plan order.
Cmds == 1..MaxTotalCmds
Insts == Coords \X Cmds
ExitCodes == {0, 1}

RECURSIVE SumTo(_, _)
SumTo(sizes, p) == IF p = 0 THEN 0 ELSE sizes[p] + SumTo(sizes, p - 1)
\* The plan whose stage p has sizes[p] commands.
PlanOf(sizes) ==
    [p \in 1..Len(sizes) |-> [i \in 1..sizes[p] |-> SumTo(sizes, p - 1) + i]]
SizeSeqs == UNION {[1..n -> 0..MaxCmds] : n \in 0..MaxStages}
Plans == {PlanOf(s) : s \in SizeSeqs}

RECURSIVE CmdCount(_)
CmdCount(stages) ==
    IF stages = <<>> THEN 0 ELSE Len(Head(stages)) + CmdCount(Tail(stages))
\* The sequences of at most n plans whose submit_request calls and commands
\* together are at most load.
RECURSIVE TodosOf(_, _)
TodosOf(n, load) ==
    IF n = 0 THEN {<<>>}
    ELSE {<<>>} \cup
         UNION {{<<p>> \o t : t \in TodosOf(n - 1, load - 1 - CmdCount(p))} :
                   p \in {q \in Plans : 1 + CmdCount(q) <= load}}
\* The sequences of plans the callers may submit.
Todos == TodosOf(MaxRequests, MaxLoad) \ {<<>>}

VARIABLES
    todo,        \* the plans the API callers will submit, in order
    nreq,        \* CommandsRequest objects constructed so far
    arrays,      \* arrays[c]: commands_arrays of c's constructor, after its filter
    running, waiting, finished, failed,   \* the fields of each CommandsRequest
    lock,        \* lock[c]: 0 when free, else the handler holding self.lock
    requests,    \* Module.requests
    srv,         \* the HTTP server thread: its position and locals (request is
                 \* submit_request's _request argument)
    hnd,         \* hnd[h]: position and locals of a thread in Module.notify
    inflight,    \* commands sent to the dispatcher and not yet completed
    r,           \* r[<<c, command>>]: CommandResult.r, <<>> while absent
    notifs,      \* completion notifications queued for Module.notify
    dispatched,  \* dispatched[c]: the commands of c passed to send_command, in order
    spurLeft     \* spurious notifications the environment may still deliver

vars == <<todo, nreq, arrays, running, waiting, finished, failed, lock, requests,
          srv, hnd, inflight, r, notifs, dispatched, spurLeft>>

coord == <<running, waiting, finished, failed>>

----------------------------------------------------------------------------
\* Tags and results

\* '%s:%d' % (str(self.id), index): one string per (coordinator id, index).
Tag(c, index) == <<c, index>>
\* The tag of run_command's synchronous commands.
SeqTag == <<0, 0>>
\* Tags no coordinator issues: those of an unknown id.
ForeignTags == {<<MaxRequests + 1, 0>>}

CommandResult(tag, command) == [tag |-> tag, command |-> command]

\* Mutant: the constructor keeps the empty stages.
FilterEmpty_KeepsAll(commands_arrays) == commands_arrays

\* filter(lambda x: len(x) != 0, commands_arrays)
FilterEmpty(commands_arrays) == SelectSeq(commands_arrays, LAMBDA x : Len(x) # 0)
\* seq[1:]
Slice1(seq) == SubSeq(seq, 2, Len(seq))
\* list.pop(index) leaves the list without its element at index (1-based here)
Pop(seq, i) == SubSeq(seq, 1, i - 1) \o SubSeq(seq, i + 1, Len(seq))

IdleSrv == [pc |-> "idle", c |-> 0, request |-> <<>>, commands |-> <<>>,
            results |-> <<>>, state |-> ""]
NoInst == <<0, 0>>
\* src and stale tell the properties what a call of notify was made for: the
\* command whose completion it delivers, and whether that command had left
\* running for finished or failed before the call.
IdleH == [pc |-> "idle", tag |-> SeqTag, ri |-> 0, ei |-> 0, match |-> <<>>,
          req |-> 0, commands |-> <<>>, results |-> <<>>, ret |-> FALSE,
          src |-> NoInst, stale |-> FALSE]

----------------------------------------------------------------------------
\* CommandsRequest: the methods

is_finished(c) == running[c] = <<>> /\ waiting[c] = <<>>

\* Mutant: a failed command stops the plan.
is_ready_UnlessFailed(c) == running[c] = <<>> /\ waiting[c] # <<>> /\ failed[c] = <<>>

is_ready(c) == running[c] = <<>> /\ waiting[c] # <<>>
is_waiting(c) == waiting[c] # <<>>
has_failed(c) == failed[c] # <<>>
\* Mutant: the state looks at running alone.
get_state_IgnoresWaiting(c) ==
    IF running[c] # <<>> THEN "pending"
    ELSE IF has_failed(c) THEN "failed"
    ELSE "success"

get_state(c) ==
    IF ~is_finished(c) THEN "pending"
    ELSE IF has_failed(c) THEN "failed"
    ELSE "success"

\* The first index of running[c] whose tag is tag, 0 when there is none.
FirstIndex(c, tag) ==
    IF \E i \in 1..Len(running[c]) : running[c][i].tag = tag
    THEN CHOOSE i \in 1..Len(running[c]) :
            /\ running[c][i].tag = tag
            /\ \A j \in 1..(i - 1) : running[c][j].tag # tag
    ELSE 0

\* Mutant: the test of the exit code is inverted.
finish_InvertedTest(c, tag) ==
    LET i == FirstIndex(c, tag) IN
    IF i = 0
    THEN [running |-> running[c], finished |-> finished[c],
          failed |-> failed[c], ret |-> FALSE]
    ELSE IF r[<<c, running[c][i].command>>] # <<0>>
    THEN [running |-> Pop(running[c], i),
          finished |-> Append(finished[c], running[c][i]),
          failed |-> failed[c], ret |-> TRUE]
    ELSE [running |-> Pop(running[c], i),
          finished |-> finished[c],
          failed |-> Append(failed[c], running[c][i]), ret |-> TRUE]

\* Mutant: finish returns True whether or not it found the tag.
finish_ReturnsTrue(c, tag) ==
    LET i == FirstIndex(c, tag) IN
    IF i = 0
    THEN [running |-> running[c], finished |-> finished[c],
          failed |-> failed[c], ret |-> TRUE]
    ELSE IF r[<<c, running[c][i].command>>] = <<0>>
    THEN [running |-> Pop(running[c], i),
          finished |-> Append(finished[c], running[c][i]),
          failed |-> failed[c], ret |-> TRUE]
    ELSE [running |-> Pop(running[c], i),
          finished |-> finished[c],
          failed |-> Append(failed[c], running[c][i]), ret |-> TRUE]

\* Mutant: a tag that is not running is filed as a failure.
finish_FilesUnknown(c, tag) ==
    LET i == FirstIndex(c, tag) IN
    IF i = 0
    THEN [running |-> running[c], finished |-> finished[c],
          failed |-> Append(failed[c], CommandResult(tag, 0)), ret |-> FALSE]
    ELSE IF r[<<c, running[c][i].command>>] = <<0>>
    THEN [running |-> Pop(running[c], i),
          finished |-> Append(finished[c], running[c][i]),
          failed |-> failed[c], ret |-> TRUE]
    ELSE [running |-> Pop(running[c], i),
          finished |-> finished[c],
          failed |-> Append(failed[c], running[c][i]), ret |-> TRUE]

\* Mutant: a result whose exit code is not 0 is popped and filed nowhere.
finish_DropsFailed(c, tag) ==
    LET i == FirstIndex(c, tag) IN
    IF i = 0
    THEN [running |-> running[c], finished |-> finished[c],
          failed |-> failed[c], ret |-> FALSE]
    ELSE IF r[<<c, running[c][i].command>>] = <<0>>
    THEN [running |-> Pop(running[c], i),
          finished |-> Append(finished[c], running[c][i]),
          failed |-> failed[c], ret |-> TRUE]
    ELSE [running |-> Pop(running[c], i),
          finished |-> finished[c],
          failed |-> failed[c], ret |-> TRUE]

\* finish(tag): the fields after the call, and its return value.
finish(c, tag) ==
    LET i == FirstIndex(c, tag) IN
    IF i = 0
    THEN [running |-> running[c], finished |-> finished[c],
          failed |-> failed[c], ret |-> FALSE]
    ELSE IF r[<<c, running[c][i].command>>] = <<0>>
    THEN [running |-> Pop(running[c], i),
          finished |-> Append(finished[c], running[c][i]),
          failed |-> failed[c], ret |-> TRUE]
    ELSE [running |-> Pop(running[c], i),
          finished |-> finished[c],
          failed |-> Append(failed[c], running[c][i]), ret |-> TRUE]

\* One iteration of run()'s loop: the result built for commands[index].
RunResult(c, commands, results) ==
    CommandResult(Tag(c, Len(results)), commands[Len(results) + 1])

\* instance.send_command(result, json.dumps(commands[index]), tag)
send_command(c, result) ==
    /\ inflight' = inflight \cup {[c |-> c, command |-> result.command, tag |-> result.tag]}
    /\ dispatched' = [dispatched EXCEPT ![c] = Append(@, result.command)]

----------------------------------------------------------------------------
Init ==
    /\ todo \in Todos
    /\ nreq = 0
    /\ arrays = [c \in Coords |-> <<>>]
    /\ running = [c \in Coords |-> <<>>]
    /\ waiting = [c \in Coords |-> <<>>]
    /\ finished = [c \in Coords |-> <<>>]
    /\ failed = [c \in Coords |-> <<>>]
    /\ lock = [c \in Coords |-> 0]
    /\ requests = <<>>
    /\ srv = IdleSrv
    /\ hnd = [h \in Handlers |-> IdleH]
    /\ inflight = {}
    /\ r = [x \in Insts |-> <<>>]
    /\ notifs = {}
    /\ dispatched = [c \in Coords |-> <<>>]
    /\ spurLeft = MaxCalls - Len(todo)

----------------------------------------------------------------------------
\* The HTTP server thread: submit_request and the status query

\* submit_request enters CommandsRequest.__init__: lines 44-60.
SubmitRequest ==
    /\ srv.pc = "idle"
    /\ todo # <<>>
    /\ LET c == nreq + 1
           filtered == FilterEmpty(Head(todo))
       IN /\ nreq' = c
          /\ arrays' = [arrays EXCEPT ![c] = filtered]
          /\ todo' = Tail(todo)
          /\ running' = [running EXCEPT ![c] = <<>>]
          /\ waiting' = [waiting EXCEPT ![c] = Slice1(filtered)]
          /\ finished' = [finished EXCEPT ![c] = <<>>]
          /\ failed' = [failed EXCEPT ![c] = <<>>]
          /\ srv' = IF Len(filtered) = 0
                    THEN [IdleSrv EXCEPT !.pc = "register", !.c = c, !.request = Head(todo)]
                    ELSE [IdleSrv EXCEPT !.pc = "run", !.c = c, !.request = Head(todo),
                                         !.commands = filtered[1]]
    /\ UNCHANGED <<lock, requests, hnd, inflight, r, notifs, dispatched, spurLeft>>

\* __init__ in run(commands_arrays[0]): one iteration of the loop.
CtorSend ==
    /\ srv.pc = "run"
    /\ Len(srv.results) < Len(srv.commands)
    /\ LET result == RunResult(srv.c, srv.commands, srv.results)
       IN /\ srv' = [srv EXCEPT !.results = Append(@, result)]
          /\ send_command(srv.c, result)
    /\ UNCHANGED <<todo, nreq, arrays, coord, lock, requests, hnd, r, notifs, spurLeft>>

\* __init__: self.running.extend(results), and the constructor returns.
CtorExtend ==
    /\ srv.pc = "run"
    /\ Len(srv.results) = Len(srv.commands)
    /\ running' = [running EXCEPT ![srv.c] = @ \o srv.results]
    /\ srv' = [IdleSrv EXCEPT !.pc = "register", !.c = srv.c, !.request = srv.request]
    /\ UNCHANGED <<todo, nreq, arrays, waiting, finished, failed, lock, requests,
                   hnd, inflight, r, notifs, dispatched, spurLeft>>

\* submit_request: self.requests.append(request), then the wait argument.
Register ==
    /\ srv.pc = "register"
    /\ requests' = Append(requests, srv.c)
    /\ \E wait \in BOOLEAN :
          srv' = IF wait THEN [IdleSrv EXCEPT !.pc = "wait", !.c = srv.c] ELSE IdleSrv
    /\ UNCHANGED <<todo, nreq, arrays, coord, lock, hnd, inflight, r, notifs,
                   dispatched, spurLeft>>

\* submit_request: while not request.is_finished(): time.sleep(0.001)
Poll ==
    /\ srv.pc = "wait"
    /\ lock[srv.c] = 0
    /\ srv' = IF is_finished(srv.c) THEN IdleSrv ELSE srv
    /\ UNCHANGED <<todo, nreq, arrays, coord, lock, requests, hnd, inflight, r,
                   notifs, dispatched, spurLeft>>

\* A status query of a registered request: get_state() under self.lock.
Query ==
    /\ srv.pc = "idle"
    /\ \E i \in 1..Len(requests) :
          /\ lock[requests[i]] = 0
          /\ srv' = [IdleSrv EXCEPT !.pc = "query", !.c = requests[i],
                                    !.state = get_state(requests[i])]
    /\ UNCHANGED <<todo, nreq, arrays, coord, lock, requests, hnd, inflight, r,
                   notifs, dispatched, spurLeft>>

QueryReturn ==
    /\ srv.pc = "query"
    /\ srv' = IdleSrv
    /\ UNCHANGED <<todo, nreq, arrays, coord, lock, requests, hnd, inflight, r,
                   notifs, dispatched, spurLeft>>

----------------------------------------------------------------------------
\* The command dispatcher

\* A command completes: its result gets the exit code, a notification is queued.
Complete ==
    \E x \in inflight, code \in ExitCodes :
        /\ inflight' = inflight \ {x}
        /\ r' = [r EXCEPT ![<<x.c, x.command>>] = <<code>>]
        /\ notifs' = notifs \cup {[ntype |-> "command", tag |-> x.tag,
                                   src |-> <<x.c, x.command>>, dup |-> FALSE]}
        /\ UNCHANGED <<todo, nreq, arrays, coord, lock, requests, srv, hnd,
                       dispatched, spurLeft>>

\* The stage of arrays[c] that holds command cmd, and the tag run() gives it.
StageNo(c, cmd) ==
    CHOOSE s \in 1..Len(arrays[c]) : \E i \in 1..Len(arrays[c][s]) : arrays[c][s][i] = cmd
TagOf(c, cmd) ==
    LET stage == arrays[c][StageNo(c, cmd)]
    IN Tag(c, (CHOOSE i \in 1..Len(stage) : stage[i] = cmd) - 1)

\* What else the environment can deliver: another notify type, the tag of a
\* synchronous command, a tag nobody issued, a completion delivered again.
SpuriousNotifs ==
    {[ntype |-> "osd_map", tag |-> SeqTag, src |-> NoInst, dup |-> FALSE],
     [ntype |-> "command", tag |-> SeqTag, src |-> NoInst, dup |-> FALSE]}
    \cup {[ntype |-> "command", tag |-> t, src |-> NoInst, dup |-> FALSE] : t \in ForeignTags}
    \cup {[ntype |-> "command", tag |-> TagOf(x[1], x[2]), src |-> x, dup |-> TRUE] :
            x \in {y \in Insts : r[y] # <<>>}}


----------------------------------------------------------------------------
\* Module.notify / Module._notify, run by handler thread h

\* The handler threads are alike: a call of notify runs on the first free one.
FreeHandler(h) ==
    /\ hnd[h].pc = "idle"
    /\ \A g \in 1..(h - 1) : hnd[g].pc # "idle"

\* The command x is in finished or failed of its coordinator.
Resolved(x) ==
    \/ \E i \in 1..Len(finished[x[1]]) : finished[x[1]][i].command = x[2]
    \/ \E i \in 1..Len(failed[x[1]]) : failed[x[1]][i].command = x[2]

\* _notify(notify_type, tag), lines 257-260, up to the start of the filter.
NotifyEnter(h, n) ==
    hnd' = [hnd EXCEPT ![h] =
        IF n.ntype # "command" \/ n.tag = SeqTag
        THEN IdleH
        ELSE [IdleH EXCEPT !.pc = "scan", !.tag = n.tag, !.ri = 1, !.ei = 1,
                           !.src = n.src,
                           !.stale = (n.dup /\ Resolved(n.src))]]

\* notify is called for the completion of a dispatched command.
Pickup(h) ==
    /\ FreeHandler(h)
    /\ \E n \in notifs :
          /\ notifs' = notifs \ {n}
          /\ NotifyEnter(h, n)
    /\ UNCHANGED <<todo, nreq, arrays, coord, lock, requests, srv, inflight, r,
                   dispatched, spurLeft>>

\* notify is called for something else: see SpuriousNotifs.
Spurious(h) ==
    /\ FreeHandler(h)
    /\ spurLeft > 0
    /\ spurLeft' = spurLeft - 1
    /\ \E n \in SpuriousNotifs : NotifyEnter(h, n)
    /\ UNCHANGED <<todo, nreq, arrays, coord, lock, requests, srv, inflight, r,
                   notifs, dispatched>>

\* filter(lambda x: x.is_running(tag), self.requests): one step of the loop of
\* is_running over self.running of the request the filter is at.
ScanStep(h) ==
    /\ hnd[h].pc = "scan"
    /\ hnd[h].ri <= Len(requests)
    /\ LET c == requests[hnd[h].ri]
           e == hnd[h].ei
       IN hnd' = [hnd EXCEPT ![h] =
              IF e > Len(running[c])
              THEN [@ EXCEPT !.ri = @ + 1, !.ei = 1]
              ELSE IF running[c][e].tag = hnd[h].tag
              THEN [@ EXCEPT !.ri = @ + 1, !.ei = 1, !.match = Append(@, c)]
              ELSE [@ EXCEPT !.ei = @ + 1]]
    /\ UNCHANGED <<todo, nreq, arrays, coord, lock, requests, srv, inflight, r,
                   notifs, dispatched, spurLeft>>

\* Mutant: the call goes on with the first registered request, matched or not.
ScanEnd_FirstRequest(h) ==
    /\ hnd[h].pc = "scan"
    /\ hnd[h].ri > Len(requests)
    /\ hnd' = [hnd EXCEPT ![h] =
          IF Len(hnd[h].match) # 1
          THEN IdleH
          ELSE [IdleH EXCEPT !.pc = "finish", !.tag = hnd[h].tag, !.req = requests[1]]]
    /\ UNCHANGED <<todo, nreq, arrays, coord, lock, requests, srv, inflight, r,
                   notifs, dispatched, spurLeft>>

\* The filter is through self.requests: if len(request) != 1: warn, return.
ScanEnd(h) ==
    /\ hnd[h].pc = "scan"
    /\ hnd[h].ri > Len(requests)
    /\ hnd' = [hnd EXCEPT ![h] =
          IF Len(hnd[h].match) # 1
          THEN IdleH
          ELSE [IdleH EXCEPT !.pc = "finish", !.tag = hnd[h].tag, !.req = hnd[h].match[1]]]
    /\ UNCHANGED <<todo, nreq, arrays, coord, lock, requests, srv, inflight, r,
                   notifs, dispatched, spurLeft>>

\* request.finish(tag)
Finish(h) ==
    /\ hnd[h].pc = "finish"
    /\ lock[hnd[h].req] = 0
    /\ LET c == hnd[h].req
           f == finish(c, hnd[h].tag)
       IN /\ running' = [running EXCEPT ![c] = f.running]
          /\ finished' = [finished EXCEPT ![c] = f.finished]
          /\ failed' = [failed EXCEPT ![c] = f.failed]
          /\ hnd' = [hnd EXCEPT ![h] = [@ EXCEPT !.pc = "is_ready", !.ret = f.ret]]
    /\ UNCHANGED <<todo, nreq, arrays, waiting, lock, requests, srv, inflight, r,
                   notifs, dispatched, spurLeft>>

\* if request.is_ready():
IsReady(h) ==
    /\ hnd[h].pc = "is_ready"
    /\ lock[hnd[h].req] = 0
    /\ hnd' = [hnd EXCEPT ![h] =
          IF is_ready(hnd[h].req)
          THEN [IdleH EXCEPT !.pc = "next", !.tag = hnd[h].tag, !.req = hnd[h].req]
          ELSE IdleH]
    /\ UNCHANGED <<todo, nreq, arrays, coord, lock, requests, srv, inflight, r,
                   notifs, dispatched, spurLeft>>

\* Mutant: next() starts each stage with an empty failed list.
NextBegin_ResetsFailed(h) ==
    /\ hnd[h].pc = "next"
    /\ lock[hnd[h].req] = 0
    /\ LET c == hnd[h].req IN
       IF waiting[c] = <<>>
       THEN /\ hnd' = [hnd EXCEPT ![h] = IdleH]
            /\ UNCHANGED <<waiting, lock, failed>>
       ELSE /\ waiting' = [waiting EXCEPT ![c] = Slice1(@)]
            /\ failed' = [failed EXCEPT ![c] = <<>>]
            /\ lock' = [lock EXCEPT ![c] = h]
            /\ hnd' = [hnd EXCEPT ![h] =
                  [IdleH EXCEPT !.pc = "run", !.tag = hnd[h].tag, !.req = c,
                                !.commands = waiting[c][1]]]
    /\ UNCHANGED <<todo, nreq, arrays, running, finished, requests, srv,
                   inflight, r, notifs, dispatched, spurLeft>>

\* Mutant: next() runs the first waiting stage and leaves it in waiting.
NextBegin_KeepsStage(h) ==
    /\ hnd[h].pc = "next"
    /\ lock[hnd[h].req] = 0
    /\ LET c == hnd[h].req IN
       IF waiting[c] = <<>>
       THEN /\ hnd' = [hnd EXCEPT ![h] = IdleH]
            /\ UNCHANGED lock
       ELSE /\ lock' = [lock EXCEPT ![c] = h]
            /\ hnd' = [hnd EXCEPT ![h] =
                  [IdleH EXCEPT !.pc = "run", !.tag = hnd[h].tag, !.req = c,
                                !.commands = waiting[c][1]]]
    /\ UNCHANGED <<todo, nreq, arrays, coord, requests, srv,
                   inflight, r, notifs, dispatched, spurLeft>>

\* request.next(): lines 91-98, the lock is taken and the next stage popped.
NextBegin(h) ==
    /\ hnd[h].pc = "next"
    /\ lock[hnd[h].req] = 0
    /\ LET c == hnd[h].req IN
       IF waiting[c] = <<>>
       THEN /\ hnd' = [hnd EXCEPT ![h] = IdleH]
            /\ UNCHANGED <<waiting, lock>>
       ELSE /\ waiting' = [waiting EXCEPT ![c] = Slice1(@)]
            /\ lock' = [lock EXCEPT ![c] = h]
            /\ hnd' = [hnd EXCEPT ![h] =
                  [IdleH EXCEPT !.pc = "run", !.tag = hnd[h].tag, !.req = c,
                                !.commands = waiting[c][1]]]
    /\ UNCHANGED <<todo, nreq, arrays, running, finished, failed, requests, srv,
                   inflight, r, notifs, dispatched, spurLeft>>

\* next() in run(commands): one iteration of the loop.
NextSend(h) ==
    /\ hnd[h].pc = "run"
    /\ Len(hnd[h].results) < Len(hnd[h].commands)
    /\ LET result == RunResult(hnd[h].req, hnd[h].commands, hnd[h].results)
       IN /\ hnd' = [hnd EXCEPT ![h] = [@ EXCEPT !.results = Append(@, result)]]
          /\ send_command(hnd[h].req, result)
    /\ UNCHANGED <<todo, nreq, arrays, coord, lock, requests, srv, r, notifs, spurLeft>>

\* next(): self.running.extend(...), the lock is released.
NextExtend(h) ==
    /\ hnd[h].pc = "run"
    /\ Len(hnd[h].results) = Len(hnd[h].commands)
    /\ running' = [running EXCEPT ![hnd[h].req] = @ \o hnd[h].results]
    /\ lock' = [lock EXCEPT ![hnd[h].req] = 0]
    /\ hnd' = [hnd EXCEPT ![h] = IdleH]
    /\ UNCHANGED <<todo, nreq, arrays, waiting, finished, failed, requests, srv,
                   inflight, r, notifs, dispatched, spurLeft>>

Notify(h) ==
    \/ Pickup(h)
    \/ Spurious(h)
    \/ ScanStep(h)
    \/ ScanEnd(h)
    \/ Finish(h)
    \/ IsReady(h)
    \/ NextBegin(h)
    \/ NextSend(h)
    \/ NextExtend(h)

Server ==
    \/ SubmitRequest
    \/ CtorSend
    \/ CtorExtend
    \/ Register
    \/ Poll
    \/ Query
    \/ QueryReturn

Next ==
    \/ Server
    \/ Complete
    \/ \E h \in Handlers : Notify(h)

Spec == Init /\ [][Next]_vars

\* The threads run on: the server thread once inside a call, the dispatcher,
\* and every notify call once made. No fairness on the calls that come from
\* outside (SubmitRequest, Query, Spurious).
HandlerRun(h) ==
    \/ ScanStep(h)
    \/ ScanEnd(h)
    \/ Finish(h)
    \/ IsReady(h)
    \/ NextBegin(h)
    \/ NextSend(h)
    \/ NextExtend(h)

Fairness ==
    /\ WF_vars(CtorSend \/ CtorExtend \/ Register \/ Poll \/ QueryReturn)
    /\ WF_vars(Complete)
    /\ \A h \in Handlers : WF_vars(Pickup(h))
    /\ \A h \in Handlers : SF_vars(HandlerRun(h))

FairSpec == Spec /\ Fairness

----------------------------------------------------------------------------
\* Vocabulary of the properties

Registered(c) == \E i \in 1..Len(requests) : requests[i] = c
\* The constructor of c has returned.
Constructed(c) == c <= nreq /\ ~(srv.c = c /\ srv.pc = "run")
\* is_finished() of c can be called and returns true.
FinishedObs(c) == Constructed(c) /\ lock[c] = 0 /\ running[c] = <<>> /\ waiting[c] = <<>>
\* A notify call that is no first delivery of a completion has been made.
SpurUsed == spurLeft + nreq + Len(todo) < MaxCalls
\* The commands held by a list of results.
CommandsIn(results) == {results[i].command : i \in 1..Len(results)}

----------------------------------------------------------------------------
\* C1: stage barrier. When every notification is the one delivery of a
\* completion, no command of a later stage has been dispatched while a command
\* of an earlier stage of the same coordinator is still in running.
StageBarrier ==
    ~SpurUsed =>
        \A c \in 1..nreq :
            \A i \in 1..Len(running[c]), j \in 1..Len(dispatched[c]) :
                StageNo(c, dispatched[c][j]) <= StageNo(c, running[c][i].command)

\* C2: plan completion. Under fair scheduling and one notification per
\* dispatched command, every constructed coordinator comes to be finished and
\* a submit_request that waits returns.
PlanCompletes ==
    /\ \A c \in Coords : (c <= nreq) ~> (SpurUsed \/ FinishedObs(c))
    /\ (srv.pc = "wait") ~> (SpurUsed \/ srv.pc = "idle")

\* C3: next() called while running is non-empty or no stage is waiting pops no
\* stage, dispatches nothing and leaves the four collections as they are.
NextNoOpUnlessReady ==
    [][\A h \in Handlers :
          (/\ hnd[h].pc = "next"
           /\ hnd'[h] # hnd[h]
           /\ (running[hnd[h].req] # <<>> \/ waiting[hnd[h].req] = <<>>))
          => (/\ hnd'[h].pc = "idle"
              /\ UNCHANGED <<coord, dispatched, inflight>>)]_vars

\* C4: finish(tag) with the tag in running removes one entry that has the tag,
\* files it into finished when its exit code is 0 and into failed otherwise,
\* returns true, and leaves waiting and every other entry alone.
FinishMovesOne ==
    [][\A h \in Handlers :
          (/\ hnd[h].pc = "finish"
           /\ hnd'[h] # hnd[h]
           /\ \E i \in 1..Len(running[hnd[h].req]) :
                 running[hnd[h].req][i].tag = hnd[h].tag)
          => LET c == hnd[h].req IN
             /\ hnd'[h].ret = TRUE
             /\ waiting' = waiting
             /\ \A d \in Coords \ {c} :
                   /\ running'[d] = running[d]
                   /\ finished'[d] = finished[d]
                   /\ failed'[d] = failed[d]
             /\ \E i \in 1..Len(running[c]) :
                   /\ running[c][i].tag = hnd[h].tag
                   /\ running'[c] = Pop(running[c], i)
                   /\ IF r[<<c, running[c][i].command>>] = <<0>>
                      THEN /\ finished'[c] = Append(finished[c], running[c][i])
                           /\ failed'[c] = failed[c]
                      ELSE /\ failed'[c] = Append(failed[c], running[c][i])
                           /\ finished'[c] = finished[c]]_vars

\* C4 witness: a finish has returned true, with results filed in finished and
\* in failed and another command of the stage still running.
WitnessFinishFiled ==
    \E h \in Handlers :
        /\ hnd[h].pc = "is_ready"
        /\ hnd[h].ret
        /\ finished[hnd[h].req] # <<>>
        /\ failed[hnd[h].req] # <<>>
        /\ running[hnd[h].req] # <<>>

\* No command a registered coordinator has dispatched was given tag t.
NeverIssued(t) ==
    \A c \in Coords :
        Registered(c) =>
            \A j \in 1..Len(dispatched[c]) : TagOf(c, dispatched[c][j]) # t

\* The tag of the notify call whose step this is.
StepTag(h) == IF hnd[h].pc = "idle" THEN hnd'[h].tag ELSE hnd[h].tag

\* C5: finish(tag) with the tag not in running returns false and changes
\* nothing; and no step of a notify call whose tag no registered coordinator
\* issued changes a coordinator or dispatches, and the call gets no further
\* than its filter.
ForeignTagChangesNothing ==
    [][\A h \in Handlers :
          /\ (/\ hnd[h].pc = "finish"
              /\ hnd'[h] # hnd[h]
              /\ \A i \in 1..Len(running[hnd[h].req]) :
                    running[hnd[h].req][i].tag # hnd[h].tag)
             => (/\ hnd'[h].ret = FALSE
                 /\ UNCHANGED <<coord, dispatched, inflight>>)
          /\ (hnd'[h] # hnd[h] /\ NeverIssued(StepTag(h)))
             => (/\ hnd'[h].pc \in {"scan", "idle"}
                 /\ UNCHANGED <<coord, lock, dispatched, inflight>>)]_vars

\* C5 witness: finish was called with a tag that had left running, and
\* returned false.
WitnessFinishMissed ==
    \E h \in Handlers : hnd[h].pc = "is_ready" /\ ~hnd[h].ret

RECURSIVE Flatten(_)
Flatten(stages) == IF stages = <<>> THEN <<>> ELSE Head(stages) \o Flatten(Tail(stages))

\* Every command of c's plan is in finished or failed, once.
AllFiled(c) ==
    /\ CommandsIn(finished[c]) \cup CommandsIn(failed[c])
          = {Flatten(arrays[c])[k] : k \in 1..Len(Flatten(arrays[c]))}
    /\ Len(finished[c]) + Len(failed[c]) = Len(Flatten(arrays[c]))

\* C6: failure never aborts the plan. A finish that files a failure removes
\* that entry alone from running; with failures recorded, is_ready still
\* answers true once running is empty and stages wait, and next() then takes
\* the first waiting stage; the stages are dispatched in plan order; and a
\* finished coordinator has every command of its plan in finished or failed.
FailureDoesNotAbort ==
    /\ [](\A c \in Coords : FinishedObs(c) => AllFiled(c))
    /\ [](\A c \in Coords :
             dispatched[c] = SubSeq(Flatten(arrays[c]), 1, Len(dispatched[c])))
    /\ [][\A h \in Handlers :
             /\ (/\ hnd[h].pc = "finish"
                 /\ Len(failed'[hnd[h].req]) > Len(failed[hnd[h].req]))
                => LET c == hnd[h].req IN
                   /\ waiting' = waiting
                   /\ Len(running'[c]) = Len(running[c]) - 1
                   /\ \A i \in 1..Len(running[c]) :
                         \/ \E j \in 1..Len(running'[c]) : running'[c][j] = running[c][i]
                         \/ failed'[c][Len(failed'[c])] = running[c][i]
             /\ (/\ hnd[h].pc = "is_ready"
                 /\ hnd'[h] # hnd[h]
                 /\ failed[hnd[h].req] # <<>>
                 /\ running[hnd[h].req] = <<>>
                 /\ waiting[hnd[h].req] # <<>>)
                => hnd'[h].pc = "next"
             /\ (/\ hnd[h].pc = "next"
                 /\ hnd'[h] # hnd[h]
                 /\ failed[hnd[h].req] # <<>>
                 /\ waiting[hnd[h].req] # <<>>)
                => (/\ hnd'[h].pc = "run"
                    /\ hnd'[h].commands = Head(waiting[hnd[h].req])
                    /\ waiting'[hnd[h].req] = Tail(waiting[hnd[h].req]))]_vars

\* C6 witness: a finished coordinator of a plan of several stages whose first
\* stage had a command exit nonzero.
WitnessFailedThenFinished ==
    \E c \in Coords :
        /\ FinishedObs(c)
        /\ Len(arrays[c]) >= 2
        /\ AllFiled(c)
        /\ \E i \in 1..Len(failed[c]) :
              /\ StageNo(c, failed[c][i].command) = 1
              /\ r[<<c, failed[c][i].command>>] = <<1>>

RECURSIVE NonEmptyStages(_)
NonEmptyStages(p) ==
    IF p = <<>> THEN <<>>
    ELSE IF Len(Head(p)) = 0 THEN NonEmptyStages(Tail(p))
    ELSE <<Head(p)>> \o NonEmptyStages(Tail(p))

\* C7: when the constructor has returned, waiting is the non-empty stages of
\* the plan in order without the first of them, running holds one result per
\* command of that first stage, tagged id:0, id:1, ..., and exactly those
\* commands were dispatched; with no non-empty stage nothing was dispatched
\* and the coordinator is finished and empty.
ConstructorPost ==
    srv.pc = "register" =>
        LET c == srv.c
            ne == NonEmptyStages(srv.request)
        IN /\ finished[c] = <<>>
           /\ failed[c] = <<>>
           /\ IF ne = <<>>
              THEN /\ running[c] = <<>>
                   /\ waiting[c] = <<>>
                   /\ dispatched[c] = <<>>
                   /\ is_finished(c)
              ELSE /\ waiting[c] = Tail(ne)
                   /\ dispatched[c] = ne[1]
                   /\ Len(running[c]) = Len(ne[1])
                   /\ \A i \in 1..Len(running[c]) :
                         /\ running[c][i].command = ne[1][i]
                         /\ running[c][i].tag = Tag(c, i - 1)

\* C7 witness: the constructor has returned for a plan whose first stage is
\* empty and whose other two are not.
WitnessConstructed ==
    /\ srv.pc = "register"
    /\ Len(srv.request) = 3
    /\ Len(srv.request[1]) = 0
    /\ Len(srv.request[2]) = 2
    /\ Len(srv.request[3]) > 0
    /\ Len(running[srv.c]) = 2
    /\ Len(waiting[srv.c]) = 1

\* C8: get_state() returns "pending" exactly when running or waiting is
\* non-empty, and otherwise "failed" when failed is non-empty, else "success".
GetStateCorrect ==
    [][(srv.pc = "idle" /\ srv'.pc = "query")
          => LET c == srv'.c
                 busy == Len(running[c]) > 0 \/ Len(waiting[c]) > 0
             IN /\ (srv'.state = "pending") <=> busy
                /\ (srv'.state = "failed") <=> (~busy /\ Len(failed[c]) > 0)
                /\ (srv'.state = "success") <=> (~busy /\ Len(failed[c]) = 0)]_vars

\* C8 witness: get_state() returned "failed" for a plan of several stages in
\* which a command of the first stage failed and the last stage succeeded.
WitnessStateFailed ==
    /\ srv.pc = "query"
    /\ srv.state = "failed"
    /\ Len(arrays[srv.c]) >= 2
    /\ \E i \in 1..Len(failed[srv.c]) : StageNo(srv.c, failed[srv.c][i].command) = 1
    /\ \A k \in 1..Len(arrays[srv.c][Len(arrays[srv.c])]) :
          arrays[srv.c][Len(arrays[srv.c])][k] \in CommandsIn(finished[srv.c])

\* C9: once is_finished() is true of a coordinator, no step changes its
\* running, waiting, finished or failed, and get_state() keeps its value.
TerminalStable ==
    [][\A c \in Coords :
          FinishedObs(c) =>
              /\ running'[c] = running[c]
              /\ waiting'[c] = waiting[c]
              /\ finished'[c] = finished[c]
              /\ failed'[c] = failed[c]
              /\ get_state(c)' = get_state(c)
              /\ FinishedObs(c)']_vars

\* C9 witness: a notify call is about to run finish or next on a coordinator
\* that is finished after running commands.
WitnessLateCall ==
    \E c \in Coords, h \in Handlers :
        /\ FinishedObs(c)
        /\ dispatched[c] # <<>>
        /\ hnd[h].req = c
        /\ hnd[h].pc \in {"finish", "next"}

\* C10: has_failed() is monotonic: failed only grows at its end, so once
\* has_failed() is true it stays true.
FailedMonotonic ==
    [][\A c \in Coords :
          failed[c] # <<>> =>
              /\ Len(failed'[c]) >= Len(failed[c])
              /\ SubSeq(failed'[c], 1, Len(failed[c])) = failed[c]
              /\ has_failed(c)']_vars

\* C10 witness: a command failed and a command of a later stage succeeded.
WitnessFailedThenSuccess ==
    \E c \in Coords :
        \E i \in 1..Len(failed[c]), j \in 1..Len(finished[c]) :
            /\ StageNo(c, failed[c][i].command) < StageNo(c, finished[c][j].command)
            /\ r[<<c, finished[c][j].command>>] = <<0>>
            /\ has_failed(c)

----------------------------------------------------------------------------
\* The command instances that hold a tag: those sent to the dispatcher and
\* not yet completed, and those in a coordinator's running, finished or failed.
Held(c, results) ==
    {[c |-> c, command |-> results[i].command, tag |-> results[i].tag] :
        i \in 1..Len(results)}
Issued ==
    inflight \cup
    UNION {Held(c, running[c]) \cup Held(c, finished[c]) \cup Held(c, failed[c]) :
              c \in Coords}

\* C11: tags are unique per command instance: no two dispatched command
\* instances, of one stage, of two stages of a coordinator or of two
\* coordinators, were given the same tag.
TagsUnique ==
    \A x \in Issued, y \in Issued : x.tag = y.tag => x = y

\* C12: no legitimate completion is lost. When the filter of a notify call
\* made for a dispatched command that is in neither finished nor failed ends,
\* the call goes on to finish(tag) on the coordinator that dispatched the
\* command: it does not return at the "Unknown request" test.
LegitNotLost ==
    [][\A h \in Handlers :
          (/\ hnd[h].pc = "scan"
           /\ hnd'[h].pc # "scan"
           /\ hnd[h].src # NoInst
           /\ ~Resolved(hnd[h].src))
          => (/\ hnd'[h].pc = "finish"
              /\ hnd'[h].req = hnd[h].src[1])]_vars

\* C13: a notify call made again for a command that had already been moved to
\* finished or failed matches no coordinator: its filter ends at the "Unknown
\* request" test, so it changes no coordinator and dispatches nothing.
StaleIgnored ==
    [][\A h \in Handlers :
          (/\ hnd[h].pc = "scan"
           /\ hnd'[h].pc # "scan"
           /\ hnd[h].stale)
          => (/\ hnd'[h].pc = "idle"
              /\ hnd[h].match = <<>>)]_vars

\* Handler h is in is_running's loop over running of coordinator c.
Scanning(h, c) ==
    /\ hnd[h].pc = "scan"
    /\ hnd[h].ri <= Len(requests)
    /\ requests[hnd[h].ri] = c
\* ... and has read an entry of it, with the loop not yet over.
MidScan(h, c) == Scanning(h, c) /\ hnd[h].ei > 1
\* A thread is inside the constructor's dispatch or inside next() on c.
Dispatching(c) == lock[c] # 0 \/ (srv.pc = "run" /\ srv.c = c)

\* C14: the operations on one coordinator exclude each other. When every
\* notification is the one delivery of a completion, no step changes
\* running, waiting, finished or failed of a coordinator while another thread
\* is inside is_running's loop over its running list or inside next() on it,
\* and no step of is_running reads a coordinator while the constructor's
\* dispatch or next() is under way on it.
MutualExclusion ==
    [][~SpurUsed =>
          \A c \in Coords :
              /\ \A h \in Handlers :
                    ((MidScan(h, c) \/ lock[c] = h) /\ hnd'[h] = hnd[h])
                    => (/\ running'[c] = running[c]
                        /\ waiting'[c] = waiting[c]
                        /\ finished'[c] = finished[c]
                        /\ failed'[c] = failed[c])
              /\ \A g \in Handlers :
                    (Scanning(g, c) /\ hnd'[g] # hnd[g])
                    => (~Dispatching(c) \/ lock[c] = g)]_vars

\* C15: at most one match per tag. When every notification is the one
\* delivery of a completion, no tag is in the running lists of two registered
\* coordinators, and no running list holds two entries with the same tag.
OneMatchPerTag ==
    ~SpurUsed =>
        /\ \A c \in Coords, d \in Coords :
              (Registered(c) /\ Registered(d) /\ c # d)
              => \A i \in 1..Len(running[c]), j \in 1..Len(running[d]) :
                    running[c][i].tag # running[d][j].tag
        /\ \A c \in Coords :
              \A i \in 1..Len(running[c]), j \in 1..Len(running[c]) :
                  running[c][i].tag = running[c][j].tag => i = j

\* The tags held by a list of results.
TagsIn(results) == {results[i].tag : i \in 1..Len(results)}

\* C16: within one coordinator no tag is in more than one of running,
\* finished and failed, and a command that was moved to finished or failed
\* is not in running again.
TagInOnePlace ==
    \A c \in Coords :
        /\ TagsIn(running[c]) \cap TagsIn(finished[c]) = {}
        /\ TagsIn(running[c]) \cap TagsIn(failed[c]) = {}
        /\ TagsIn(finished[c]) \cap TagsIn(failed[c]) = {}
        /\ CommandsIn(running[c]) \cap
              (CommandsIn(finished[c]) \cup CommandsIn(failed[c])) = {}

\* Every command of stage p of c's plan is in finished or failed.
StageResolved(c, p) ==
    \A i \in 1..Len(arrays[c][p]) : Resolved(<<c, arrays[c][p][i]>>)
\* The number of leading stages of c's plan that are resolved.
StagesResolved(c) ==
    CHOOSE k \in 0..Len(arrays[c]) :
        /\ \A p \in 1..k : StageResolved(c, p)
        /\ k < Len(arrays[c]) => ~StageResolved(c, k + 1)
\* The commands of the first n stages of c's plan, in plan order.
FirstStages(c, n) ==
    Flatten(SubSeq(arrays[c], 1, IF n < Len(arrays[c]) THEN n ELSE Len(arrays[c])))
\* A notify call is between finish and the end of next() on c.
Advancing(c) ==
    \E h \in Handlers : hnd[h].req = c /\ hnd[h].pc \in {"is_ready", "next", "run"}

\* C17: the order of the completions of a stage does not matter. When every
\* notification is the one delivery of a completion, what a coordinator holds
\* depends on the exit codes and on how many stages are resolved alone: a
\* result is in finished exactly when its exit code is 0 and in failed
\* otherwise; with k stages resolved nothing beyond stage k+1 has been
\* dispatched; and once the call that processed the last completion of stage k
\* is over, stage k+1 is dispatched and waiting is the stages after it.
OrderIrrelevant ==
    ~SpurUsed =>
        \A c \in Coords :
            Constructed(c) =>
                LET k == StagesResolved(c) IN
                /\ \A i \in 1..Len(finished[c]) :
                      r[<<c, finished[c][i].command>>] = <<0>>
                /\ \A i \in 1..Len(failed[c]) :
                      r[<<c, failed[c][i].command>>] = <<1>>
                /\ Len(dispatched[c]) <= Len(FirstStages(c, k + 1))
                /\ ~Advancing(c) =>
                      /\ dispatched[c] = FirstStages(c, k + 1)
                      /\ waiting[c] = SubSeq(arrays[c], k + 2, Len(arrays[c]))

\* The commands of the call of run() under way on c that are not yet sent.
Unsent(commands, results) == SubSeq(commands, Len(results) + 1, Len(commands))
InRun(c) ==
    IF srv.pc = "run" /\ srv.c = c THEN Unsent(srv.commands, srv.results)
    ELSE IF lock[c] # 0 THEN Unsent(hnd[lock[c]].commands, hnd[lock[c]].results)
    ELSE <<>>

\* C18: exactly-once dispatch. The commands dispatched so far, those of the
\* stage being dispatched, and those of the waiting stages are, in this order,
\* the commands of the plan's non-empty stages: no command is dispatched
\* twice, no stage is skipped, and a stage leaves waiting exactly when it is
\* dispatched, however many notify calls run next().
ExactlyOnceDispatch ==
    \A c \in Coords :
        c <= nreq =>
            /\ dispatched[c] \o InRun(c) \o Flatten(waiting[c]) = Flatten(arrays[c])
            /\ \A i \in 1..Len(dispatched[c]), j \in 1..Len(dispatched[c]) :
                  dispatched[c][i] = dispatched[c][j] => i = j

\* C18 witness: two notify calls are in next() on one coordinator, one of them
\* dispatching a stage and the other about to take the lock, with a stage
\* still waiting.
WitnessConcurrentNext ==
    \E g \in Handlers, h \in Handlers :
        /\ hnd[g].pc = "run"
        /\ hnd[g].results # <<>>
        /\ hnd[h].pc = "next"
        /\ hnd[h].req = hnd[g].req
        /\ waiting[hnd[g].req] # <<>>

\* The commands of a sequence, as a set.
Range(seq) == {seq[i] : i \in 1..Len(seq)}

\* C19: conservation of commands. With the constructor of a coordinator over
\* and no call of next() under way on it, every command of the plan's
\* non-empty stages is in exactly one of waiting, running, finished and
\* failed, and their sizes add up to the number of commands of the plan.
Conservation ==
    \A c \in Coords :
        (Constructed(c) /\ lock[c] = 0) =>
            LET w == Range(Flatten(waiting[c]))
                ru == CommandsIn(running[c])
                fi == CommandsIn(finished[c])
                fa == CommandsIn(failed[c])
            IN /\ w \cup ru \cup fi \cup fa = Range(Flatten(arrays[c]))
               /\ w \cap ru = {} /\ w \cap fi = {} /\ w \cap fa = {}
               /\ ru \cap fi = {} /\ ru \cap fa = {} /\ fi \cap fa = {}
               /\ Len(Flatten(waiting[c])) + Len(running[c]) + Len(finished[c])
                     + Len(failed[c]) = Len(Flatten(arrays[c]))

\* C19 witness: a coordinator at rest with commands waiting, running and
\* failed.
WitnessSpread ==
    \E c \in Coords :
        /\ Constructed(c)
        /\ lock[c] = 0
        /\ waiting[c] # <<>>
        /\ running[c] # <<>>
        /\ failed[c] # <<>>

\* Nothing of coordinator d changes and nothing of it is dispatched.
Untouched(d) ==
    /\ running'[d] = running[d]
    /\ waiting'[d] = waiting[d]
    /\ finished'[d] = finished[d]
    /\ failed'[d] = failed[d]
    /\ dispatched'[d] = dispatched[d]
    /\ lock'[d] = lock[d]

\* C20: isolation between plans. A notify call changes no coordinator while
\* it filters the requests; the request it goes on with is a registered one
\* whose running list held the tag, the coordinator that issued the tag; and
\* from there on every step of the call leaves every other coordinator's
\* running, waiting, finished and failed alone and dispatches none of their
\* stages.
Isolation ==
    [][\A h \in Handlers :
          hnd'[h] # hnd[h] =>
              /\ hnd[h].pc \in {"idle", "scan"} => \A d \in Coords : Untouched(d)
              /\ (hnd[h].pc = "scan" /\ hnd'[h].pc = "finish")
                 => (/\ Registered(hnd'[h].req)
                     /\ hnd'[h].req = hnd[h].tag[1]
                     /\ hnd[h].match = <<hnd'[h].req>>)
              /\ hnd[h].pc \in {"finish", "is_ready", "next", "run"}
                 => (/\ hnd'[h].req \in {hnd[h].req, 0}
                     /\ \A d \in Coords \ {hnd[h].req} : Untouched(d))]_vars

\* C20 witness: two coordinators are registered with commands running, and a
\* notify call routed to the second of them has finished a command and is
\* dispatching its next stage.
WitnessTwoPlans ==
    \E h \in Handlers :
        /\ Len(requests) = 2
        /\ hnd[h].pc = "run"
        /\ hnd[h].req = requests[2]
        /\ hnd[h].results # <<>>
        /\ finished[requests[2]] # <<>>
        /\ running[requests[1]] # <<>>

====
